---- MODULE Spec2Model ----
(***************************************************************************)
(* Ring attention (context parallelism) and the data-parallel gradient     *)
(* synchronizer of picotron, as state machines.                            *)
(*                                                                         *)
(* Tensors are modelled by their provenance: which rank's block they hold  *)
(* (org) and which block computations were summed/merged into them (parts).*)
(* ready = FALSE marks a receive buffer whose exchange has not been waited *)
(* for yet (its content is not valid).                                     *)
(***************************************************************************)
EXTENDS Integers, Sequences, FiniteSets, TLC

\* ------------------------------------------------------------------ bounds
MaxW == 3
MaxDP == 2
MaxNest == 2
MaxGrad == 1

Ranks == 0..(MaxW - 1)

\* The three ContextComms instances: forward line 88, backward lines 125-126.
ChanNames == {"comm", "kv_comm", "d_kv_comm"}

VARIABLES
    world_size, is_causal,          \* cp_world_size, the is_causal argument
    pc, step,                       \* per rank: position in forward/backward, loop index
    k, v, next_k, next_v,           \* per rank: current and incoming K/V blocks
    out, lse,                       \* per rank: running output and log-sum-exp
    k_og, v_og, ctx, fwd_ret,       \* per rank: clones, saved state, forward's result
    dq, dk, dv, next_dk, next_dv,   \* per rank: backward accumulators and incoming grads
    block_dq_buffer, block_dk_buffer, block_dv_buffer,
    bwd_ret,                        \* per rank: backward's result (dq, dk, dv)
    pending, active, sent,          \* per channel, per rank: ContextComms state and the wire
    trace, hazard,                  \* per rank: history of operations; buffer misuse seen
    dp_world_size,                  \* size of the data-parallel group
    require_backward_grad_sync,     \* per rank: the DataParallel flag
    scopes, scope_last,             \* per rank: open no_sync scopes; last scope operation
    grad, pre_grad,                 \* per rank: the hook's gradient; its value on entry
    hook_pc, hook_sync, hook_in_scope, collectives,
                                    \* per rank: position in the hook; flag read by it;
                                    \* scope open then; all_reduce calls it made
    m_blocks, m_order,              \* block (out, lse) pairs to merge; indices merged so far
    m_out, m_lse, m_pc,             \* running out and lse; "run" or "raised"
    cp_orig, cp_mods,               \* module tree handed to ContextParallel; tree now
    cp_pc, cp_pos, cp_err,          \* position in __init__; loop index; exception raised
    cp_dict,                        \* attribute names set on the wrapper instance
    ga_name, ga_stack, ga_result,   \* attribute being read; __getattr__ frames; outcome
    ck_world, ck_layers,            \* ranks of the job; per rank: len(layer_names)
    ck_pc, ck_arrived, ck_passed,   \* per rank: position; barriers entered; barriers left
    ck_err                          \* per rank: exception raised

cfgVars  == <<world_size, is_causal>>
fwdVars  == <<k, v, next_k, next_v, out, lse, k_og, v_og, ctx, fwd_ret>>
bwdVars  == <<dq, dk, dv, next_dk, next_dv, block_dq_buffer, block_dk_buffer,
              block_dv_buffer, bwd_ret>>
commVars == <<pending, active, sent>>
ringVars == <<cfgVars, pc, step, fwdVars, bwdVars, commVars, trace, hazard>>
dpVars   == <<dp_world_size, require_backward_grad_sync, scopes, scope_last, grad,
              pre_grad, hook_pc, hook_sync, hook_in_scope, collectives>>
mergeVars == <<m_blocks, m_order, m_out, m_lse, m_pc>>
cpVars   == <<cp_orig, cp_mods, cp_pc, cp_pos, cp_err, cp_dict, ga_name, ga_stack,
              ga_result>>
ckVars   == <<ck_world, ck_layers, ck_pc, ck_arrived, ck_passed, ck_err>>

\* ----------------------------------------------------------------- tensors
NoneT == [kind |-> "None", org |-> -1, parts |-> <<>>, ready |-> TRUE]

\* A rank's local Q, K, V block and the upstream gradient of its output.
Block(kind, r) == [kind |-> kind, org |-> r, parts |-> <<>>, ready |-> TRUE]

\* The destination buffer send_recv hands back: not valid until wait().
EmptyLike(t) == [kind |-> t.kind, org |-> -1, parts |-> <<>>, ready |-> FALSE]

IsNone(t) == t.kind = "None"

\* One block computation: local Q of rank qr against K block kb and V block vb.
Contribution(qr, kb, vb, mask) == [q |-> qr, k |-> kb, v |-> vb, mask |-> mask]

Derived(kind, parts, ready) == [kind |-> kind, org |-> -1, parts |-> parts, ready |-> ready]

\* x.to(dtype), x.clone(): same content.
To(t) == t

\* a + b on tensors: the contributions of both.
Add(a, b) == Derived(a.kind, a.parts \o b.parts, a.ready /\ b.ready)

Put(f, r, x) == [f EXCEPT ![r] = x]

\* ------------------------------------------------------------ communicator
\* ContextComms: ring neighbours, send_recv / commit / wait.
send_rank(r) == (r + 1) % world_size
recv_rank(r) == (r - 1 + world_size) % world_size

\* send_recv(t): queue a send-to-next of t and a receive-from-previous; the
\* caller gets EmptyLike(t) back.  p is the rank's list of queued sources.
send_recv(p, t) == Append(p, t)

\* commit(): launch everything queued as one batch.
Commit(c, r, p) ==
    /\ pending' = [pending EXCEPT ![c][r] = p]
    /\ active'  = [active EXCEPT ![c][r] = TRUE]
    /\ sent'    = [sent EXCEPT ![c][r] = Append(@, p)]

\* The batch in flight on rank r is its latest one; it can complete once both
\* neighbours have launched the batch with the same number.
CanComplete(c, r) ==
    LET n == Len(sent[c][r])
    IN  /\ Len(sent[c][recv_rank(r)]) >= n
        /\ Len(sent[c][send_rank(r)]) >= n

WaitBlocks(c, r) == active[c][r] /\ ~CanComplete(c, r)

\* What the i-th receive buffer of the batch in flight holds after wait();
\* old when nothing is in flight (wait is then a no-op).
Received(c, r, i, old) ==
    IF active[c][r] THEN sent[c][recv_rank(r)][Len(sent[c][r])][i] ELSE old

InFlightCount(c, r) == IF active[c][r] THEN Len(pending[c][r]) ELSE 0

\* wait(): block until the batch in flight is complete, then forget it.
Wait(c, r) ==
    /\ ~WaitBlocks(c, r)
    /\ pending' = [pending EXCEPT ![c][r] = IF active[c][r] THEN <<>> ELSE @]
    /\ active'  = [active EXCEPT ![c][r] = FALSE]
    /\ UNCHANGED sent

\* t is the source of an exchange of rank r that has not been waited for.
IsInFlightSource(r, t) ==
    \E c \in ChanNames : \E i \in 1..Len(pending[c][r]) : pending[c][r][i] = t

\* ----------------------------------------------------------------- history
Ev(op, ch, s, n, blk, mask) ==
    [op |-> op, ch |-> ch, step |-> s, n |-> n, blk |-> blk, mask |-> mask]

Log(r, e) == trace' = [trace EXCEPT ![r] = Append(@, e)]

Flag(r, bad) == hazard' = [hazard EXCEPT ![r] = @ \/ bad]

\* ------------------------------------------------------------ pure helpers
\* Variant: the exchange is issued on the last step too.
FwdExchanges_Always(s, ws) == s # ws

\* if step + 1 != comm.world_size  (forward, lines 96 and 107)
FwdExchanges(s, ws) == s + 1 # ws

\* Variant: strict comparison, the diagonal block is dropped.
FwdVisible_Strict(s, rank, causal) == ~causal \/ s < rank

\* if not is_causal or step <= comm.rank  (forward, line 101)
FwdVisible(s, rank, causal) == ~causal \/ s <= rank

\* is_causal and step == 0  (forward, line 103)
FwdMask(causal, s) == causal /\ s = 0

\* Variant: one ring step short.
FwdLoops_OneShort(s, ws) == s + 1 < ws

\* for step in range(comm.world_size)
FwdLoops(s, ws) == s < ws

\* ring_attention_forward: (O, log_sum_exp) of one Q block against one K/V block.
ring_attention_forward(qt, kt, vt, mask) ==
    LET c  == Contribution(qt.org, kt.org, vt.org, mask)
        ok == qt.ready /\ kt.ready /\ vt.ready
    IN  <<Derived("O", <<c>>, ok), Derived("LSE", <<c>>, ok)>>

\* _update inside update_out_and_lse: blend the block into the running pair.
update(current_out, current_lse, block_out, block_lse) ==
    <<Derived("O", current_out.parts \o block_out.parts,
              current_out.ready /\ block_out.ready
              /\ current_lse.ready /\ block_lse.ready),
      Derived("LSE", current_lse.parts \o block_lse.parts,
              current_lse.ready /\ block_lse.ready)>>

update_out_and_lse(o, l, block_out, block_lse) ==
    IF IsNone(o) THEN <<To(block_out), block_lse>>
    ELSE update(o, l, To(block_out), block_lse)

\* ----------------------------------------------------------- channel names
\* comm = ContextComms("comm"), forward line 88.
FwdChannel == "comm"

\* kv_comm = ContextComms("kv_comm"), backward line 125.
KVChannel == "kv_comm"

\* Variant: the gradient communicator is created under the K/V name.
GradChannel_Shared == "kv_comm"

\* d_kv_comm = ContextComms("d_kv_comm"), backward line 126.
GradChannel == "d_kv_comm"

\* ------------------------------------------------- RingAttentionFunc.forward
\* Variant: the received block is not taken over.
Adopt_KeepsCurrent(current, received) == current

\* k = next_k; v = next_v after the wait (forward lines 109-110, backward
\* lines 166-167).
Adopt(current, received) == received

Q(r) == Block("Q", r)

FwdBegin(r) ==
    /\ pc[r] = "f_begin"
    /\ k_og' = Put(k_og, r, To(k[r]))
    /\ v_og' = Put(v_og, r, To(v[r]))
    /\ out' = Put(out, r, NoneT)
    /\ lse' = Put(lse, r, NoneT)
    /\ next_k' = Put(next_k, r, NoneT)
    /\ next_v' = Put(next_v, r, NoneT)
    /\ step' = Put(step, r, 0)
    /\ pc' = Put(pc, r, IF FwdLoops(0, world_size) THEN "f_issue" ELSE "f_finish")
    /\ UNCHANGED <<mergeVars, cpVars, ckVars, dpVars, cfgVars, k, v, ctx, fwd_ret, bwdVars, commVars, trace, hazard>>

\* Variant: the block computation comes first and the exchange is issued
\* after it, so nothing is transferred during the computation.
FwdIssue_AfterCompute(r) ==
    /\ pc[r] = "f_issue"
    /\ LET vis   == FwdVisible(step[r], r, is_causal)
           mask  == FwdMask(is_causal, step[r])
           blk   == ring_attention_forward(Q(r), k[r], v[r], mask)
           merge == update_out_and_lse(out[r], lse[r], blk[1], blk[2])
           done  == IF vis THEN Ev("attn", "-", step[r], 0, k[r].org, mask)
                    ELSE Ev("attn_skip", "-", step[r], 0, k[r].org, FALSE)
           sends == IF FwdExchanges(step[r], world_size)
                    THEN <<Ev("commit", FwdChannel, step[r], 2, k[r].org, FALSE)>>
                    ELSE <<>>
       IN  /\ out' = Put(out, r, IF vis THEN merge[1] ELSE out[r])
           /\ lse' = Put(lse, r, IF vis THEN merge[2] ELSE lse[r])
           /\ trace' = [trace EXCEPT ![r] = (@ \o <<done>>) \o sends]
    /\ IF FwdExchanges(step[r], world_size)
       THEN /\ next_k' = Put(next_k, r, EmptyLike(k[r]))
            /\ next_v' = Put(next_v, r, EmptyLike(v[r]))
            /\ Commit(FwdChannel, r,
                      send_recv(send_recv(pending[FwdChannel][r], k[r]), v[r]))
       ELSE UNCHANGED <<next_k, next_v, commVars>>
    /\ pc' = Put(pc, r, "f_wait")
    /\ UNCHANGED <<mergeVars, cpVars, ckVars, dpVars, cfgVars, step, k, v, k_og, v_og, ctx, fwd_ret,
                   bwdVars, hazard>>

FwdIssue(r) ==
    /\ pc[r] = "f_issue"
    /\ IF FwdExchanges(step[r], world_size)
       THEN /\ next_k' = Put(next_k, r, EmptyLike(k[r]))
            /\ next_v' = Put(next_v, r, EmptyLike(v[r]))
            /\ Commit(FwdChannel, r,
                      send_recv(send_recv(pending[FwdChannel][r], k[r]), v[r]))
            /\ Log(r, Ev("commit", FwdChannel, step[r], 2, k[r].org, FALSE))
            /\ Flag(r, ~k[r].ready \/ ~v[r].ready)
       ELSE UNCHANGED <<next_k, next_v, commVars, trace, hazard>>
    /\ pc' = Put(pc, r, "f_compute")
    /\ UNCHANGED <<mergeVars, cpVars, ckVars, dpVars, cfgVars, step, k, v, out, lse, k_og, v_og, ctx, fwd_ret, bwdVars>>

FwdCompute(r) ==
    /\ pc[r] = "f_compute"
    /\ IF FwdVisible(step[r], r, is_causal)
       THEN LET mask  == FwdMask(is_causal, step[r])
                blk   == ring_attention_forward(Q(r), k[r], v[r], mask)
                merge == update_out_and_lse(out[r], lse[r], blk[1], blk[2])
            IN  /\ out' = Put(out, r, merge[1])
                /\ lse' = Put(lse, r, merge[2])
                /\ Log(r, Ev("attn", "-", step[r], 0, k[r].org, mask))
                /\ Flag(r, ~k[r].ready \/ ~v[r].ready)
       ELSE /\ Log(r, Ev("attn_skip", "-", step[r], 0, k[r].org, FALSE))
            /\ UNCHANGED <<out, lse, hazard>>
    /\ pc' = Put(pc, r, "f_wait")
    /\ UNCHANGED <<mergeVars, cpVars, ckVars, dpVars, cfgVars, step, k, v, next_k, next_v, k_og, v_og, ctx, fwd_ret,
                   bwdVars, commVars>>

FwdWait(r) ==
    /\ pc[r] = "f_wait"
    /\ IF FwdExchanges(step[r], world_size)
       THEN LET rk == Received(FwdChannel, r, 1, next_k[r])
                rv == Received(FwdChannel, r, 2, next_v[r])
            IN  /\ Wait(FwdChannel, r)
                /\ next_k' = Put(next_k, r, rk)
                /\ next_v' = Put(next_v, r, rv)
                /\ k' = Put(k, r, Adopt(k[r], rk))
                /\ v' = Put(v, r, Adopt(v[r], rv))
                /\ Log(r, Ev("wait", FwdChannel, step[r], InFlightCount(FwdChannel, r), -1, FALSE))
                /\ Flag(r, ~rk.ready \/ ~rv.ready)
       ELSE UNCHANGED <<k, v, next_k, next_v, commVars, trace, hazard>>
    /\ step' = Put(step, r, step[r] + 1)
    /\ pc' = Put(pc, r, IF FwdLoops(step[r] + 1, world_size) THEN "f_issue" ELSE "f_finish")
    /\ UNCHANGED <<mergeVars, cpVars, ckVars, dpVars, cfgVars, out, lse, k_og, v_og, ctx, fwd_ret, bwdVars>>

\* Variant: the K/V the ring loop ended with are saved.
SavedKV_Rotated(r) == <<k[r], v[r]>>

\* The K/V of ctx.save_for_backward(q, k_og, v_og, out, lse.squeeze(-1)), line 113.
SavedKV(r) == <<k_og[r], v_og[r]>>

\* out.to(q.dtype); ctx.save_for_backward(q, k_og, v_og, out, lse); return out.
\* out = None has no .to: the call raises.
FwdFinish(r) ==
    /\ pc[r] = "f_finish"
    /\ IF IsNone(out[r])
       THEN /\ pc' = Put(pc, r, "f_error")
            /\ UNCHANGED <<out, ctx, fwd_ret, hazard>>
       ELSE /\ out' = Put(out, r, To(out[r]))
            /\ ctx' = Put(ctx, r, [q |-> Q(r), k |-> SavedKV(r)[1], v |-> SavedKV(r)[2],
                                   out |-> To(out[r]), lse |-> lse[r],
                                   is_causal |-> is_causal])
            /\ fwd_ret' = Put(fwd_ret, r, To(out[r]))
            /\ Flag(r, ~out[r].ready \/ ~lse[r].ready)
            /\ pc' = Put(pc, r, "f_done")
    /\ UNCHANGED <<mergeVars, cpVars, ckVars, dpVars, cfgVars, step, k, v, next_k, next_v, lse, k_og, v_og, bwdVars,
                   commVars, trace>>

\* ------------------------------------------------ RingAttentionFunc.backward
\* The upstream gradient of the rank's output.
DOut(r) == Block("dO", r)

\* torch.empty(...): storage whose content is not initialized.
Uninit(kind) == [kind |-> kind, org |-> -1, parts |-> <<>>, ready |-> FALSE]

\* Variant: the K/V exchange is issued on the last step too.
BwdExchanges_Always(s, ws) == s # ws

\* if step + 1 != kv_comm.world_size  (backward, lines 138 and 164)
BwdExchanges(s, ws) == s + 1 # ws

\* Variant: strict comparison, step 0 of rank 0 is taken as invisible.
BwdVisible_Strict(s, rank, causal) == s < rank \/ ~causal

\* Variant: the causal rule is not applied in backward.
BwdVisible_Always(s, rank, causal) == TRUE

\* if step <= kv_comm.rank or not is_causal  (backward, line 143)
BwdVisible(s, rank, causal) == s <= rank \/ ~causal

\* Variant: the mask is applied on every step of a causal call.
BwdMask_EveryStep(causal, s) == causal

\* bwd_causal = is_causal and step == 0  (backward, line 144)
BwdMask(causal, s) == causal /\ s = 0

\* Variant: an invisible step never waits for the gradient exchange.
SkipWaits_Never(s) == FALSE

\* elif step != 0  (backward, line 159)
SkipWaits(s) == s # 0

\* Variant: an invisible step keeps its own accumulators.
SkipGrad_KeepsLocal(local, received) == local

\* dk = next_dk; dv = next_dv on an invisible step (lines 161-162)
SkipGrad(local, received) == received

\* for step in range(kv_comm.world_size)
BwdLoops(s, ws) == s < ws

\* ring_attention_backward: (dQ, dK, dV) of one Q block against one K/V block.
ring_attention_backward(dO, qt, kt, vt, ot, softmax_lse, mask) ==
    LET c  == Contribution(qt.org, kt.org, vt.org, mask)
        ok == /\ dO.ready /\ qt.ready /\ kt.ready /\ vt.ready
              /\ ot.ready /\ softmax_lse.ready
    IN  <<Derived("dQ", <<c>>, ok), Derived("dK", <<c>>, ok), Derived("dV", <<c>>, ok)>>

\* Variant: the local dk, dv are returned, not the received ones.
BwdResult_Local(r) == [dq |-> dq[r], dk |-> dk[r], dv |-> dv[r]]

\* return dq, next_dk, next_dv, None, None
BwdResult(r) == [dq |-> dq[r], dk |-> next_dk[r], dv |-> next_dv[r]]

BwdBegin(r) ==
    /\ pc[r] = "f_done"
    /\ k' = Put(k, r, ctx[r].k)
    /\ v' = Put(v, r, ctx[r].v)
    /\ out' = Put(out, r, ctx[r].out)
    /\ lse' = Put(lse, r, ctx[r].lse)
    /\ dq' = Put(dq, r, NoneT)
    /\ dk' = Put(dk, r, NoneT)
    /\ dv' = Put(dv, r, NoneT)
    /\ next_dk' = Put(next_dk, r, NoneT)
    /\ next_dv' = Put(next_dv, r, NoneT)
    /\ next_k' = Put(next_k, r, NoneT)
    /\ next_v' = Put(next_v, r, NoneT)
    /\ block_dq_buffer' = Put(block_dq_buffer, r, Uninit("dQ"))
    /\ block_dk_buffer' = Put(block_dk_buffer, r, Uninit("dK"))
    /\ block_dv_buffer' = Put(block_dv_buffer, r, Uninit("dV"))
    /\ step' = Put(step, r, 0)
    /\ pc' = Put(pc, r, IF BwdLoops(0, world_size) THEN "b_issue" ELSE "b_finalwait")
    /\ UNCHANGED <<mergeVars, cpVars, ckVars, dpVars, cfgVars, k_og, v_og, ctx, fwd_ret, bwd_ret, commVars, trace, hazard>>

BwdIssue(r) ==
    /\ pc[r] = "b_issue"
    /\ IF BwdExchanges(step[r], world_size)
       THEN /\ next_k' = Put(next_k, r, EmptyLike(k[r]))
            /\ next_v' = Put(next_v, r, EmptyLike(v[r]))
            /\ Commit(KVChannel, r,
                      send_recv(send_recv(pending[KVChannel][r], k[r]), v[r]))
            /\ Log(r, Ev("commit", KVChannel, step[r], 2, k[r].org, FALSE))
            /\ Flag(r, ~k[r].ready \/ ~v[r].ready)
       ELSE UNCHANGED <<next_k, next_v, commVars, trace, hazard>>
    /\ pc' = Put(pc, r, "b_compute")
    /\ UNCHANGED <<mergeVars, cpVars, ckVars, dpVars, cfgVars, step, k, v, out, lse, k_og, v_og, ctx, fwd_ret, bwdVars>>

\* Lines 143-155 and the test of line 159: the block gradients and dq.  The
\* d_kv_comm.wait() of lines 156 and 160 and what follows it is BwdGradWait.
BwdCompute(r) ==
    /\ pc[r] = "b_compute"
    /\ IF BwdVisible(step[r], r, ctx[r].is_causal)
       THEN LET bwd_causal == BwdMask(ctx[r].is_causal, step[r])
                blk == ring_attention_backward(DOut(r), ctx[r].q, k[r], v[r],
                                               out[r], lse[r], bwd_causal)
            IN  /\ block_dq_buffer' = Put(block_dq_buffer, r, blk[1])
                /\ block_dk_buffer' = Put(block_dk_buffer, r, blk[2])
                /\ block_dv_buffer' = Put(block_dv_buffer, r, blk[3])
                /\ Log(r, Ev("grad", "-", step[r], 0, k[r].org, bwd_causal))
                /\ IF IsNone(dq[r])
                   THEN /\ dq' = Put(dq, r, To(blk[1]))
                        /\ dk' = Put(dk, r, To(blk[2]))
                        /\ dv' = Put(dv, r, To(blk[3]))
                        /\ Flag(r, ~k[r].ready \/ ~v[r].ready)
                        /\ pc' = Put(pc, r, "b_kvwait")
                   ELSE /\ dq' = Put(dq, r, Add(dq[r], blk[1]))
                        /\ Flag(r, ~k[r].ready \/ ~v[r].ready
                                   \/ IsInFlightSource(r, dq[r]))
                        /\ pc' = Put(pc, r, "b_gradwait")
                        /\ UNCHANGED <<dk, dv>>
       ELSE /\ Log(r, Ev("grad_skip", "-", step[r], 0, k[r].org, FALSE))
            /\ pc' = Put(pc, r, IF SkipWaits(step[r]) THEN "b_gradwait" ELSE "b_kvwait")
            /\ UNCHANGED <<dq, dk, dv, block_dq_buffer, block_dk_buffer,
                           block_dv_buffer, hazard>>
    /\ UNCHANGED <<mergeVars, cpVars, ckVars, dpVars, cfgVars, step, fwdVars, next_dk, next_dv, bwd_ret, commVars>>

\* Lines 156-158 (visible step, dq present) and 160-162 (invisible step).
BwdGradWait(r) ==
    /\ pc[r] = "b_gradwait"
    /\ LET rdk == Received(GradChannel, r, 1, next_dk[r])
           rdv == Received(GradChannel, r, 2, next_dv[r])
       IN  /\ Wait(GradChannel, r)
           /\ next_dk' = Put(next_dk, r, rdk)
           /\ next_dv' = Put(next_dv, r, rdv)
           /\ Log(r, Ev("wait", GradChannel, step[r], InFlightCount(GradChannel, r),
                        -1, FALSE))
           /\ Flag(r, ~rdk.ready \/ ~rdv.ready)
           /\ IF BwdVisible(step[r], r, ctx[r].is_causal)
              THEN /\ dk' = Put(dk, r, Add(block_dk_buffer[r], rdk))
                   /\ dv' = Put(dv, r, Add(block_dv_buffer[r], rdv))
              ELSE /\ dk' = Put(dk, r, SkipGrad(dk[r], rdk))
                   /\ dv' = Put(dv, r, SkipGrad(dv[r], rdv))
    /\ pc' = Put(pc, r, "b_kvwait")
    /\ UNCHANGED <<mergeVars, cpVars, ckVars, dpVars, cfgVars, step, fwdVars, dq, block_dq_buffer, block_dk_buffer,
                   block_dv_buffer, bwd_ret>>

BwdKVWait(r) ==
    /\ pc[r] = "b_kvwait"
    /\ IF BwdExchanges(step[r], world_size)
       THEN LET rk == Received(KVChannel, r, 1, next_k[r])
                rv == Received(KVChannel, r, 2, next_v[r])
            IN  /\ Wait(KVChannel, r)
                /\ next_k' = Put(next_k, r, rk)
                /\ next_v' = Put(next_v, r, rv)
                /\ k' = Put(k, r, Adopt(k[r], rk))
                /\ v' = Put(v, r, Adopt(v[r], rv))
                /\ Log(r, Ev("wait", KVChannel, step[r], InFlightCount(KVChannel, r),
                             -1, FALSE))
                /\ Flag(r, ~rk.ready \/ ~rv.ready)
       ELSE UNCHANGED <<k, v, next_k, next_v, commVars, trace, hazard>>
    /\ pc' = Put(pc, r, "b_gradissue")
    /\ UNCHANGED <<mergeVars, cpVars, ckVars, dpVars, cfgVars, step, out, lse, k_og, v_og, ctx, fwd_ret, bwdVars>>

\* Variant: dq is put on the gradient channel.
GradSources_WithDq(r) == <<dq[r], dv[r]>>

\* The tensors handed to d_kv_comm.send_recv (lines 169-170).
GradSources(r) == <<dk[r], dv[r]>>

\* Lines 169-171.  send_recv(None) has nothing to size the receive buffer by:
\* the call raises.
BwdGradIssue(r) ==
    /\ pc[r] = "b_gradissue"
    /\ IF IsNone(dk[r]) \/ IsNone(dv[r])
       THEN /\ pc' = Put(pc, r, "b_error")
            /\ UNCHANGED <<next_dk, next_dv, commVars, trace, hazard, step>>
       ELSE /\ next_dk' = Put(next_dk, r, EmptyLike(dk[r]))
            /\ next_dv' = Put(next_dv, r, EmptyLike(dv[r]))
            /\ Commit(GradChannel, r,
                      send_recv(send_recv(pending[GradChannel][r], GradSources(r)[1]),
                                GradSources(r)[2]))
            /\ Log(r, Ev("commit", GradChannel, step[r], 2, k[r].org, FALSE))
            /\ Flag(r, ~GradSources(r)[1].ready \/ ~GradSources(r)[2].ready)
            /\ step' = Put(step, r, step[r] + 1)
            /\ pc' = Put(pc, r, IF BwdLoops(step[r] + 1, world_size)
                                THEN "b_issue" ELSE "b_finalwait")
    /\ UNCHANGED <<mergeVars, cpVars, ckVars, dpVars, cfgVars, fwdVars, dq, dk, dv, block_dq_buffer, block_dk_buffer,
                   block_dv_buffer, bwd_ret>>

\* Variant: no wait after the loop.
BwdFinalWait_Missing(r) ==
    /\ pc[r] = "b_finalwait"
    /\ pc' = Put(pc, r, "b_return")
    /\ UNCHANGED <<mergeVars, cpVars, ckVars, dpVars, cfgVars, step, fwdVars, bwdVars, commVars, trace, hazard>>

\* Line 173.
BwdFinalWait(r) ==
    /\ pc[r] = "b_finalwait"
    /\ LET rdk == Received(GradChannel, r, 1, next_dk[r])
           rdv == Received(GradChannel, r, 2, next_dv[r])
       IN  /\ Wait(GradChannel, r)
           /\ next_dk' = Put(next_dk, r, rdk)
           /\ next_dv' = Put(next_dv, r, rdv)
           /\ Log(r, Ev("wait", GradChannel, step[r], InFlightCount(GradChannel, r),
                        -1, FALSE))
    /\ pc' = Put(pc, r, "b_return")
    /\ UNCHANGED <<mergeVars, cpVars, ckVars, dpVars, cfgVars, step, fwdVars, dq, dk, dv, block_dq_buffer,
                   block_dk_buffer, block_dv_buffer, bwd_ret, hazard>>

\* Line 175.
BwdReturn(r) ==
    /\ pc[r] = "b_return"
    /\ bwd_ret' = Put(bwd_ret, r, BwdResult(r))
    /\ Flag(r, ~BwdResult(r).dq.ready \/ ~BwdResult(r).dk.ready
               \/ ~BwdResult(r).dv.ready)
    /\ pc' = Put(pc, r, "b_done")
    /\ UNCHANGED <<mergeVars, cpVars, ckVars, dpVars, cfgVars, step, fwdVars, dq, dk, dv, next_dk, next_dv,
                   block_dq_buffer, block_dk_buffer, block_dv_buffer, commVars, trace>>

\* ------------------------------------------------------------ DataParallel
DPRanks == 0..(MaxDP - 1)

DPGroup == 0..(dp_world_size - 1)

GradVals == 0..MaxGrad

\* Gradients are exact fractions num/den.
Frac(n, d) == [num |-> n, den |-> d]

RECURSIVE SumUpTo(_, _)
SumUpTo(f, n) == IF n < 0 THEN 0 ELSE f[n] + SumUpTo(f, n - 1)

\* dist.all_reduce(grad, op=SUM, group=dp_group): every rank of the group gets
\* the sum of what the ranks passed in.
all_reduce(contrib) == Frac(SumUpTo(contrib, dp_world_size - 1), 1)

\* Variant: the sum is not divided.
Divide_Missing(g, n) == g

\* grad /= dp_world_size
Divide(g, n) == Frac(g.num, g.den * n)

InHook(r) == hook_pc[r] \in {"allreduce", "divide"}

\* The gradient of a parameter is ready on rank r: autograd calls
\* _allreduce_grads(grad).  Line 39 reads the flag; with it set the rank enters
\* the all_reduce of line 40.
HookCall(r) ==
    /\ r \in DPGroup
    /\ hook_pc[r] = "idle"
    /\ \E g \in GradVals :
          /\ pre_grad' = Put(pre_grad, r, g)
          /\ grad' = Put(grad, r, Frac(g, 1))
    /\ hook_sync' = Put(hook_sync, r, require_backward_grad_sync[r])
    /\ hook_in_scope' = Put(hook_in_scope, r, scopes[r] > 0)
    /\ IF require_backward_grad_sync[r]
       THEN /\ hook_pc' = Put(hook_pc, r, "allreduce")
            /\ collectives' = Put(collectives, r, collectives[r] + 1)
       ELSE /\ hook_pc' = Put(hook_pc, r, "returned")
            /\ UNCHANGED collectives
    /\ UNCHANGED <<mergeVars, cpVars, ckVars, ringVars, dp_world_size, require_backward_grad_sync, scopes, scope_last>>

\* The all_reduce returns on rank r once every rank of the group has entered it.
AllReduceReturns(r) ==
    /\ r \in DPGroup
    /\ hook_pc[r] = "allreduce"
    /\ \A o \in DPGroup : hook_pc[o] # "idle" /\ hook_sync[o]
    /\ grad' = Put(grad, r, all_reduce(pre_grad))
    /\ hook_pc' = Put(hook_pc, r, "divide")
    /\ UNCHANGED <<mergeVars, cpVars, ckVars, ringVars, dp_world_size, require_backward_grad_sync, scopes, scope_last,
                   pre_grad, hook_sync, hook_in_scope, collectives>>

\* Lines 41-42.
HookDivide(r) ==
    /\ r \in DPGroup
    /\ hook_pc[r] = "divide"
    /\ grad' = Put(grad, r, Divide(grad[r], dp_world_size))
    /\ hook_pc' = Put(hook_pc, r, "returned")
    /\ UNCHANGED <<mergeVars, cpVars, ckVars, ringVars, dp_world_size, require_backward_grad_sync, scopes, scope_last,
                   pre_grad, hook_sync, hook_in_scope, collectives>>

\* The backward pass is over on every rank and the gradients are consumed
\* (optimizer step, zero_grad); the next pass may start.
NextBackward ==
    /\ \A r \in DPGroup : hook_pc[r] = "returned"
    /\ hook_pc' = [r \in DPRanks |-> "idle"]
    /\ collectives' = [r \in DPRanks |-> 0]
    /\ hook_sync' = [r \in DPRanks |-> FALSE]
    /\ hook_in_scope' = [r \in DPRanks |-> FALSE]
    /\ grad' = [r \in DPRanks |-> Frac(0, 1)]
    /\ pre_grad' = [r \in DPRanks |-> 0]
    /\ UNCHANGED <<mergeVars, cpVars, ckVars, ringVars, dp_world_size, require_backward_grad_sync, scopes, scope_last>>

\* with model.no_sync(): the generator runs to its yield (line 51).
NoSyncEnter(r) ==
    /\ r \in DPGroup
    /\ ~InHook(r)
    /\ scopes[r] < MaxNest
    /\ require_backward_grad_sync' = Put(require_backward_grad_sync, r, FALSE)
    /\ scopes' = Put(scopes, r, scopes[r] + 1)
    /\ scope_last' = Put(scope_last, r, "enter")
    /\ UNCHANGED <<mergeVars, cpVars, ckVars, ringVars, dp_world_size, grad, pre_grad, hook_pc, hook_sync,
                   hook_in_scope, collectives>>

\* The body of the with block ends normally: the generator resumes after its
\* yield (line 53).
NoSyncExit(r) ==
    /\ r \in DPGroup
    /\ ~InHook(r)
    /\ scopes[r] > 0
    /\ require_backward_grad_sync' = Put(require_backward_grad_sync, r, TRUE)
    /\ scopes' = Put(scopes, r, scopes[r] - 1)
    /\ scope_last' = Put(scope_last, r, "exit")
    /\ UNCHANGED <<mergeVars, cpVars, ckVars, ringVars, dp_world_size, grad, pre_grad, hook_pc, hook_sync,
                   hook_in_scope, collectives>>

\* The body of the with block raises: the exception is thrown into the
\* generator at its yield (line 52), which has no try/finally around it, so the
\* generator ends there and line 53 does not run.
NoSyncRaise(r) ==
    /\ r \in DPGroup
    /\ ~InHook(r)
    /\ scopes[r] > 0
    /\ scopes' = Put(scopes, r, scopes[r] - 1)
    /\ scope_last' = Put(scope_last, r, "raise")
    /\ UNCHANGED <<mergeVars, cpVars, ckVars, ringVars, dp_world_size, require_backward_grad_sync, grad, pre_grad,
                   hook_pc, hook_sync, hook_in_scope, collectives>>

\* DataParallel.__init__ (line 19) on every rank.
DPInit ==
    /\ dp_world_size \in 1..MaxDP
    /\ require_backward_grad_sync = [r \in DPRanks |-> TRUE]
    /\ scopes = [r \in DPRanks |-> 0]
    /\ scope_last = [r \in DPRanks |-> "none"]
    /\ grad = [r \in DPRanks |-> Frac(0, 1)]
    /\ pre_grad = [r \in DPRanks |-> 0]
    /\ hook_pc = [r \in DPRanks |-> "idle"]
    /\ hook_sync = [r \in DPRanks |-> FALSE]
    /\ hook_in_scope = [r \in DPRanks |-> FALSE]
    /\ collectives = [r \in DPRanks |-> 0]

DPStep(r) ==
    \/ HookCall(r)
    \/ AllReduceReturns(r)
    \/ HookDivide(r)
    \/ NoSyncEnter(r)
    \/ NoSyncExit(r)
    \/ NoSyncRaise(r)

\* ------------------------------------------------------------ specification
NoRet == [dq |-> NoneT, dk |-> NoneT, dv |-> NoneT]

NoCtx == [q |-> NoneT, k |-> NoneT, v |-> NoneT, out |-> NoneT, lse |-> NoneT,
          is_causal |-> FALSE]

\* ------------------------------- checkpoint: init_model_with_materialized_weights
\* Every rank of the job calls the function; dist.barrier() belongs to torch:
\* the n-th barrier call of a rank returns once every rank of the group has
\* made its n-th barrier call.
MaxRanks == 3
MaxLayers == 1

\* dist.barrier() at lines 65, 111, 113 and 118.
NumBarriers == 4

CkRanks == 0..(MaxRanks - 1)

CkGroup == 0..(ck_world - 1)

CkInit ==
    /\ ck_world \in 1..MaxRanks
    /\ ck_layers \in [CkRanks -> 0..MaxLayers]
    /\ ck_pc = [r \in CkRanks |-> "start"]
    /\ ck_arrived = [r \in CkRanks |-> 0]
    /\ ck_passed = [r \in CkRanks |-> 0]
    /\ ck_err = [r \in CkRanks |-> "none"]

CkRaise(r, e) ==
    /\ ck_pc' = Put(ck_pc, r, "raised")
    /\ ck_err' = Put(ck_err, r, e)
    /\ UNCHANGED ck_arrived

\* The rank calls dist.barrier().
CkEnterBarrier(r) ==
    /\ ck_pc' = Put(ck_pc, r, "in_barrier")
    /\ ck_arrived' = Put(ck_arrived, r, ck_arrived[r] + 1)
    /\ UNCHANGED ck_err

\* Lines 56-59 on global rank 0: the list of safetensors files found.
CkCheckFiles(r) ==
    /\ r \in CkGroup
    /\ ck_pc[r] = "start"
    /\ r = 0
    /\ \E available_files \in 0..1 :
           IF available_files <= 0
           THEN CkRaise(r, "FileNotFoundError")
           ELSE /\ ck_pc' = Put(ck_pc, r, "download")
                /\ UNCHANGED <<ck_arrived, ck_err>>
    /\ UNCHANGED <<ck_world, ck_layers, ck_passed, mergeVars, cpVars, ringVars, dpVars>>

\* Lines 61-65 on global rank 0: the download, then the first barrier.
CkDownload(r) ==
    /\ r \in CkGroup
    /\ ck_pc[r] = "download"
    /\ \E is_downloaded \in BOOLEAN :
           IF ~is_downloaded
           THEN CkRaise(r, "FileNotFoundError")
           ELSE CkEnterBarrier(r)
    /\ UNCHANGED <<ck_world, ck_layers, ck_passed, mergeVars, cpVars, ringVars, dpVars>>

\* Lines 56 and 65 on the other ranks: straight to the first barrier.
CkSkipDownload(r) ==
    /\ r \in CkGroup
    /\ ck_pc[r] = "start"
    /\ r # 0
    /\ CkEnterBarrier(r)
    /\ UNCHANGED <<ck_world, ck_layers, ck_passed, mergeVars, cpVars, ringVars, dpVars>>

\* The barrier the rank is in has been entered by every rank of the group.
BarrierOpen(r) == \A q \in CkGroup : ck_arrived[q] >= ck_arrived[r]

\* The code that follows the n-th barrier.
AfterBarrier(n) ==
    CASE n = 1 -> "layers"
      [] n = 2 -> "load"
      [] n = 3 -> "check_meta"
      [] OTHER -> "return"

\* dist.barrier() returns on rank r.
CkLeaveBarrier(r) ==
    /\ r \in CkGroup
    /\ ck_pc[r] = "in_barrier"
    /\ BarrierOpen(r)
    /\ ck_passed' = Put(ck_passed, r, ck_passed[r] + 1)
    /\ ck_pc' = Put(ck_pc, r, AfterBarrier(ck_passed[r] + 1))
    /\ UNCHANGED <<ck_world, ck_layers, ck_arrived, ck_err, mergeVars, cpVars, ringVars,
                   dpVars>>

\* Lines 68-111: the rank's layer names, the zero tensors of its state dict,
\* then the second barrier.
CkLayerNames(r) ==
    /\ r \in CkGroup
    /\ ck_pc[r] = "layers"
    /\ IF ck_layers[r] = 0
       THEN CkRaise(r, "Exception")
       ELSE CkEnterBarrier(r)
    /\ UNCHANGED <<ck_world, ck_layers, ck_passed, mergeVars, cpVars, ringVars, dpVars>>

\* Lines 112-113: load_state_dict(strict=True) raises on a key mismatch;
\* otherwise the third barrier.
CkLoadStateDict(r) ==
    /\ r \in CkGroup
    /\ ck_pc[r] = "load"
    /\ \E matches \in BOOLEAN :
           IF ~matches
           THEN CkRaise(r, "RuntimeError")
           ELSE CkEnterBarrier(r)
    /\ UNCHANGED <<ck_world, ck_layers, ck_passed, mergeVars, cpVars, ringVars, dpVars>>

\* Line 115: assert_no_meta_tensors(model).
CkAssertNoMeta(r) ==
    /\ r \in CkGroup
    /\ ck_pc[r] = "check_meta"
    /\ \E no_meta \in BOOLEAN :
           IF ~no_meta
           THEN CkRaise(r, "AssertionError")
           ELSE /\ ck_pc' = Put(ck_pc, r, "init_params")
                /\ UNCHANGED <<ck_arrived, ck_err>>
    /\ UNCHANGED <<ck_world, ck_layers, ck_passed, mergeVars, cpVars, ringVars, dpVars>>

\* Variant: the parameters are initialized and the model is returned without
\* the last barrier.
CkInitParameters_NoBarrier(r) ==
    /\ r \in CkGroup
    /\ ck_pc[r] = "init_params"
    /\ ck_pc' = Put(ck_pc, r, "return")
    /\ UNCHANGED <<ck_world, ck_layers, ck_arrived, ck_passed, ck_err, mergeVars, cpVars,
                   ringVars, dpVars>>

\* Lines 117-118: init_model_parameters(), then the fourth barrier.
CkInitParameters(r) ==
    /\ r \in CkGroup
    /\ ck_pc[r] = "init_params"
    /\ CkEnterBarrier(r)
    /\ UNCHANGED <<ck_world, ck_layers, ck_passed, mergeVars, cpVars, ringVars, dpVars>>

\* Line 119: return model.
CkReturn(r) ==
    /\ r \in CkGroup
    /\ ck_pc[r] = "return"
    /\ ck_pc' = Put(ck_pc, r, "returned")
    /\ UNCHANGED <<ck_world, ck_layers, ck_arrived, ck_passed, ck_err, mergeVars, cpVars,
                   ringVars, dpVars>>

CkStep(r) ==
    \/ CkCheckFiles(r)
    \/ CkDownload(r)
    \/ CkSkipDownload(r)
    \/ CkLeaveBarrier(r)
    \/ CkLayerNames(r)
    \/ CkLoadStateDict(r)
    \/ CkAssertNoMeta(r)
    \/ CkInitParameters(r)
    \/ CkReturn(r)

CkNext == \E r \in CkRanks : CkStep(r)

CkOff ==
    /\ ck_world = 0
    /\ ck_layers = <<>>
    /\ ck_pc = <<>>
    /\ ck_arrived = <<>>
    /\ ck_passed = <<>>
    /\ ck_err = <<>>

\* ------------------------------------------- update_out_and_lse, numerically
\* The ring model above follows which blocks a tensor was merged from.  This
\* part follows the numbers: out is an exact rational, and a log-sum-exp l is
\* held as the rational exp(l), so that sigmoid and logsigmoid of a difference
\* of two of them are rational too.  The arithmetic is that of the formulas
\* (real numbers); rounding of float32 is not modelled.
MaxBlocks == 3
MaxOut == 1
MaxExp == 2

RECURSIVE GCD(_, _)
GCD(a, b) == IF b = 0 THEN a ELSE GCD(b, a % b)

Abs(n) == IF n < 0 THEN -n ELSE n

\* The rational n/d, d # 0, in lowest terms with a positive denominator.
Rat(n, d) ==
    LET g == GCD(Abs(n), Abs(d))
        s == IF d < 0 THEN -1 ELSE 1
    IN  [num |-> (s * n) \div g, den |-> (s * d) \div g]

RAdd(a, b) == Rat(a.num * b.den + b.num * a.den, a.den * b.den)
RSub(a, b) == Rat(a.num * b.den - b.num * a.den, a.den * b.den)
RMul(a, b) == Rat(a.num * b.num, a.den * b.den)
RDiv(a, b) == Rat(a.num * b.den, a.den * b.num)

\* An absent tensor (None).
NoneN == [num |-> 0, den |-> 0]

\* F.sigmoid(x - y) for x = ln a, y = ln b:  1 / (1 + exp(y - x)) = a / (a + b).
sigmoid(a, b) == RDiv(a, RAdd(a, b))

\* l - F.logsigmoid(x - y), all three held as exponentials: subtracting a
\* logarithm divides the exponential.
MinusLogSigmoid(l, a, b) == RDiv(l, sigmoid(a, b))

\* Variant: the sigmoid weighs the running output instead of the block.
update_num_Swapped(current_out, current_lse, block_out, block_lse) ==
    <<RSub(current_out,
           RMul(sigmoid(current_lse, block_lse), RSub(current_out, block_out))),
      MinusLogSigmoid(current_lse, current_lse, block_lse)>>

\* _update, lines 230-237.
update_num(current_out, current_lse, block_out, block_lse) ==
    <<RSub(current_out,
           RMul(sigmoid(block_lse, current_lse), RSub(current_out, block_out))),
      MinusLogSigmoid(current_lse, current_lse, block_lse)>>

Returned(pair) == [raised |-> FALSE, out |-> pair[1], lse |-> pair[2]]
Raised == [raised |-> TRUE, out |-> NoneN, lse |-> NoneN]

\* Variant: an absent running state is taken as zeros (out 0, lse 0) and
\* the block is blended into it.
update_out_and_lse_num_Blend(o, l, block_out, block_lse, slice_) ==
    IF o = NoneN
    THEN Returned(update_num(Rat(0, 1), Rat(1, 1), block_out, block_lse))
    ELSE Returned(update_num(o, l, block_out, block_lse))

\* update_out_and_lse, lines 239-252, on tensors of one row: slice_ is None
\* or selects that row.  The result is (out, lse), or the RuntimeError of
\* line 244.
update_out_and_lse_num(o, l, block_out, block_lse, slice_) ==
    IF o = NoneN
    THEN IF slice_ # "None" THEN Raised ELSE Returned(<<block_out, block_lse>>)
    ELSE Returned(update_num(o, l, block_out, block_lse))

Slices == {"None", "row"}

BlockVals == [out : {Rat(n, 1) : n \in 0..MaxOut}, lse : {Rat(e, 1) : e \in 1..MaxExp}]

\* A caller has a fixed list of block results and nothing merged yet.
MergeInit ==
    /\ m_blocks \in UNION {[1..n -> BlockVals] : n \in 1..MaxBlocks}
    /\ m_order = <<>>
    /\ m_out = NoneN
    /\ m_lse = NoneN
    /\ m_pc = "run"

\* out, lse = update_out_and_lse(out, lse, block_out, block_lse, slice_) for a
\* block not merged yet.
MergeBlock(i, slice_) ==
    /\ m_pc = "run"
    /\ i \in DOMAIN m_blocks
    /\ \A j \in DOMAIN m_order : m_order[j] # i
    /\ LET res == update_out_and_lse_num(m_out, m_lse, m_blocks[i].out, m_blocks[i].lse,
                                         slice_)
       IN  IF res.raised
           THEN /\ m_pc' = "raised"
                /\ UNCHANGED <<m_out, m_lse, m_order>>
           ELSE /\ m_out' = res.out
                /\ m_lse' = res.lse
                /\ m_order' = Append(m_order, i)
                /\ m_pc' = "run"
    /\ UNCHANGED <<m_blocks, cpVars, ckVars, ringVars, dpVars>>

MergeNext == \E i \in 1..MaxBlocks, sl \in Slices : MergeBlock(i, sl)

MergeOff ==
    /\ m_blocks = <<>>
    /\ m_order = <<>>
    /\ m_out = NoneN
    /\ m_lse = NoneN
    /\ m_pc = "off"

\* ------------------------------------------------------- ContextParallel
\* Module names are paths: "layer.block.attn" is <<"layer", "block", "attn">>
\* and the model itself is <<>>.  The model handed to ContextParallel has a
\* module at each of the paths below; the three "attn" places hold a plain
\* Attention or some other module.
MaxWeight == 2
MaxDepth == 3

\* model.named_modules(): the model first, then its sub-modules depth first.
named_modules ==
    << <<>>, <<"attn">>, <<"layer">>, <<"layer", "attn">>, <<"layer", "block">>,
       <<"layer", "block", "attn">> >>

Paths == {named_modules[i] : i \in DOMAIN named_modules}

AttnPaths == {p \in Paths : Len(p) > 0 /\ p[Len(p)] = "attn"}

\* A plain Attention with its four projection weights and its rotary object
\* (known by the path of the module that created it).
Attention(p, w) ==
    [type |-> "Attention", q_proj |-> w, k_proj |-> w + 1, v_proj |-> w + 2,
     o_proj |-> w + 3, rotary |-> p]

Other == [type |-> "Other", q_proj |-> 0, k_proj |-> 0, v_proj |-> 0, o_proj |-> 0,
          rotary |-> <<"-">>]

\* RingAttention.__init__, lines 29-50: new Linear layers that take a copy of
\* the original's weights, and the original's rotary object.
RingAttention(original_mha) ==
    [type |-> "RingAttention",
     q_proj |-> original_mha.q_proj, k_proj |-> original_mha.k_proj,
     v_proj |-> original_mha.v_proj, o_proj |-> original_mha.o_proj,
     rotary |-> original_mha.rotary]

\* name.rsplit('.', 1): the parts a name splits into at its last dot.  A name
\* without a dot gives one part.
rsplit(name) ==
    IF Len(name) >= 2
    THEN <<SubSeq(name, 1, Len(name) - 1), <<name[Len(name)]>>>>
    ELSE <<name>>

\* isinstance(module, Attention) and not isinstance(module, RingAttention),
\* line 15.
IsPlainAttention(m) == m.type = "Attention"

\* The attributes __init__ assigns on the wrapper: lines 11-20 assign none.
InitAttrs == {}

\* Attribute names the wrapped model defines.
ModelAttrs == {"layer", "attn", "config"}

NoResult == [kind |-> "none", attr |-> "-"]

CPInit ==
    /\ cp_orig \in {f \in [Paths -> {Other} \cup
                                    {Attention(p, w) : p \in AttnPaths, w \in 1..MaxWeight}] :
                      \A p \in Paths : IF p \in AttnPaths
                                       THEN f[p].type = "Attention" => f[p].rotary = p
                                       ELSE f[p] = Other}
    /\ cp_mods = cp_orig
    /\ cp_pc = "new"
    /\ cp_pos = 0
    /\ cp_err = "none"
    /\ cp_dict = {}
    /\ ga_name = "none"
    /\ ga_stack = <<>>
    /\ ga_result = NoResult

\* super().__init__(model, config), line 12.  nn.Module.__init__ belongs to
\* torch, not to this repository.  The torch releases reject positional
\* arguments: TypeError.
CPSuperInitRaises ==
    /\ cp_pc = "new"
    /\ cp_pc' = "raised"
    /\ cp_err' = "TypeError"
    /\ UNCHANGED <<cp_orig, cp_mods, cp_pos, cp_dict, ga_name, ga_stack, ga_result,
                   mergeVars, ckVars, ringVars, dpVars>>

\* The other outcome, followed so that the rest of __init__ is covered: a
\* Module.__init__ that takes the two arguments and returns.
CPSuperInitReturns ==
    /\ cp_pc = "new"
    /\ cp_pc' = "loop"
    /\ cp_pos' = 1
    /\ cp_dict' = InitAttrs
    /\ UNCHANGED <<cp_orig, cp_mods, cp_err, ga_name, ga_stack, ga_result,
                   mergeVars, ckVars, ringVars, dpVars>>

\* One iteration of the loop of lines 14-20.
CPVisit ==
    /\ cp_pc = "loop"
    /\ cp_pos <= Len(named_modules)
    /\ LET name == named_modules[cp_pos]
           module == cp_mods[name]
       IN  IF IsPlainAttention(module)
           THEN IF Len(rsplit(name)) # 2
                THEN \* parent_name, child_name = ... with one part: ValueError
                     /\ cp_pc' = "raised"
                     /\ cp_err' = "ValueError"
                     /\ UNCHANGED <<cp_mods, cp_pos>>
                ELSE \* setattr(parent_module, child_name, RingAttention(module))
                     /\ cp_mods' = [cp_mods EXCEPT
                                      ![rsplit(name)[1] \o rsplit(name)[2]] =
                                          RingAttention(module)]
                     /\ cp_pos' = cp_pos + 1
                     /\ UNCHANGED <<cp_pc, cp_err>>
           ELSE /\ cp_pos' = cp_pos + 1
                /\ UNCHANGED <<cp_mods, cp_pc, cp_err>>
    /\ UNCHANGED <<cp_orig, cp_dict, ga_name, ga_stack, ga_result,
                   mergeVars, ckVars, ringVars, dpVars>>

\* The loop is over: __init__ returns.
CPReturn ==
    /\ cp_pc = "loop"
    /\ cp_pos > Len(named_modules)
    /\ cp_pc' = "done"
    /\ UNCHANGED <<cp_orig, cp_mods, cp_pos, cp_err, cp_dict, ga_name, ga_stack,
                   ga_result, mergeVars, ckVars, ringVars, dpVars>>

\* Some code reads wrapper.<name>, a name the wrapper does not define: Python
\* calls __getattr__(name), line 22.
GetAttrCall(name) ==
    /\ cp_pc = "done"
    /\ ga_stack = <<>>
    /\ name \notin cp_dict
    /\ ga_name' = name
    /\ ga_stack' = <<name>>
    /\ ga_result' = [kind |-> "pending", attr |-> name]
    /\ UNCHANGED <<cp_orig, cp_mods, cp_pc, cp_pos, cp_err, cp_dict,
                   mergeVars, ckVars, ringVars, dpVars>>

\* The innermost __getattr__ frame, lines 23-26.  super().__getattr__ finds
\* only what is registered on the wrapper; after its AttributeError line 26
\* evaluates self.model, which is found if "model" was assigned and is another
\* __getattr__("model") call if not.  Python ends a recursion deeper than its
\* limit with RecursionError.
GetAttrFrame ==
    /\ ga_stack # <<>>
    /\ IF "model" \in cp_dict
       THEN /\ ga_result' = [kind |-> "model_value", attr |-> ga_name]
            /\ ga_stack' = <<>>
       ELSE IF Len(ga_stack) >= MaxDepth
            THEN /\ ga_result' = [kind |-> "RecursionError", attr |-> ga_name]
                 /\ ga_stack' = <<>>
            ELSE /\ ga_stack' = Append(ga_stack, "model")
                 /\ UNCHANGED ga_result
    /\ UNCHANGED <<cp_orig, cp_mods, cp_pc, cp_pos, cp_err, cp_dict, ga_name,
                   mergeVars, ckVars, ringVars, dpVars>>

CPNext ==
    \/ CPSuperInitRaises
    \/ CPSuperInitReturns
    \/ CPVisit
    \/ CPReturn
    \/ \E name \in ModelAttrs : GetAttrCall(name)
    \/ GetAttrFrame

CPOff ==
    /\ cp_orig = <<>>
    /\ cp_mods = <<>>
    /\ cp_pc = "off"
    /\ cp_pos = 0
    /\ cp_err = "none"
    /\ cp_dict = {}
    /\ ga_name = "none"
    /\ ga_stack = <<>>
    /\ ga_result = NoResult

RingInit ==
    /\ world_size \in 1..MaxW
    /\ is_causal \in BOOLEAN
    /\ pc = [r \in Ranks |-> IF r < world_size THEN "f_begin" ELSE "off"]
    /\ step = [r \in Ranks |-> 0]
    /\ k = [r \in Ranks |-> Block("K", r)]
    /\ v = [r \in Ranks |-> Block("V", r)]
    /\ next_k = [r \in Ranks |-> NoneT]
    /\ next_v = [r \in Ranks |-> NoneT]
    /\ out = [r \in Ranks |-> NoneT]
    /\ lse = [r \in Ranks |-> NoneT]
    /\ k_og = [r \in Ranks |-> NoneT]
    /\ v_og = [r \in Ranks |-> NoneT]
    /\ ctx = [r \in Ranks |-> NoCtx]
    /\ fwd_ret = [r \in Ranks |-> NoneT]
    /\ dq = [r \in Ranks |-> NoneT]
    /\ dk = [r \in Ranks |-> NoneT]
    /\ dv = [r \in Ranks |-> NoneT]
    /\ next_dk = [r \in Ranks |-> NoneT]
    /\ next_dv = [r \in Ranks |-> NoneT]
    /\ block_dq_buffer = [r \in Ranks |-> NoneT]
    /\ block_dk_buffer = [r \in Ranks |-> NoneT]
    /\ block_dv_buffer = [r \in Ranks |-> NoneT]
    /\ bwd_ret = [r \in Ranks |-> NoRet]
    /\ pending = [c \in ChanNames |-> [r \in Ranks |-> <<>>]]
    /\ active = [c \in ChanNames |-> [r \in Ranks |-> FALSE]]
    /\ sent = [c \in ChanNames |-> [r \in Ranks |-> <<>>]]
    /\ trace = [r \in Ranks |-> <<>>]
    /\ hazard = [r \in Ranks |-> FALSE]

RankStep(r) ==
    \/ FwdBegin(r)
    \/ FwdIssue(r)
    \/ FwdCompute(r)
    \/ FwdWait(r)
    \/ FwdFinish(r)
    \/ BwdBegin(r)
    \/ BwdIssue(r)
    \/ BwdCompute(r)
    \/ BwdGradWait(r)
    \/ BwdKVWait(r)
    \/ BwdGradIssue(r)
    \/ BwdFinalWait(r)
    \/ BwdReturn(r)

vars == <<ringVars, dpVars, mergeVars, cpVars, ckVars>>

\* Ring attention alone: no data-parallel group around it.
Init == RingInit /\ DPInit /\ dp_world_size = 1 /\ MergeOff /\ CPOff /\ CkOff

Next == \E r \in Ranks : RankStep(r)

Spec == Init /\ [][Next]_vars

\* Every rank is a running process: a rank that can take its next step takes
\* it, and an exchange whose neighbours have issued theirs completes.
FairSpec == Spec /\ \A r \in Ranks : WF_vars(RankStep(r))

\* No ring attention call exists: none of its state is in use.
RingOff ==
    /\ world_size = 0
    /\ is_causal = FALSE
    /\ pc = <<>>
    /\ step = <<>>
    /\ k = <<>>
    /\ v = <<>>
    /\ next_k = <<>>
    /\ next_v = <<>>
    /\ out = <<>>
    /\ lse = <<>>
    /\ k_og = <<>>
    /\ v_og = <<>>
    /\ ctx = <<>>
    /\ fwd_ret = <<>>
    /\ dq = <<>>
    /\ dk = <<>>
    /\ dv = <<>>
    /\ next_dk = <<>>
    /\ next_dv = <<>>
    /\ block_dq_buffer = <<>>
    /\ block_dk_buffer = <<>>
    /\ block_dv_buffer = <<>>
    /\ bwd_ret = <<>>
    /\ pending = <<>>
    /\ active = <<>>
    /\ sent = <<>>
    /\ trace = <<>>
    /\ hazard = <<>>

\* The gradient synchronizer alone.
DPOnlyInit == DPInit /\ RingOff /\ MergeOff /\ CPOff /\ CkOff

DPNext == NextBackward \/ \E r \in DPRanks : DPStep(r)

SpecDP == DPOnlyInit /\ [][DPNext]_vars

\* The merge alone, over every list of block results of the bounds.
MergeOnlyInit == MergeInit /\ CPOff /\ CkOff /\ RingOff /\ DPInit /\ dp_world_size = 1

SpecMerge == MergeOnlyInit /\ [][MergeNext]_vars

\* The construction of the wrapper and attribute reads on it, alone.
CPOnlyInit == CPInit /\ MergeOff /\ CkOff /\ RingOff /\ DPInit /\ dp_world_size = 1

SpecCP == CPOnlyInit /\ [][CPNext]_vars

\* The ranks of a job materializing the model, alone.
CkOnlyInit == CkInit /\ MergeOff /\ CPOff /\ RingOff /\ DPInit /\ dp_world_size = 1

SpecCk == CkOnlyInit /\ [][CkNext]_vars

\* ------------------------------------------------------------------ claims
Active == 0..(world_size - 1)

FwdReturned(r) ==
    pc[r] \in {"f_done", "b_issue", "b_compute", "b_gradwait", "b_kvwait",
               "b_gradissue", "b_finalwait", "b_return", "b_done"}

\* The causal visibility rule of the data model: step s of rank r is visible.
CausallyVisible(r, s) == ~is_causal \/ s <= r

\* The K/V blocks rank r's queries must attend to.
RequiredBlocks(r) == IF is_causal THEN 0..r ELSE Active

\* The ranks whose queries see block b.
Seers(b) == IF is_causal THEN {r \in Active : r >= b} ELSE Active

\* How many contributions of t were computed against K block b.
TimesMerged(t, b) == Cardinality({i \in 1..Len(t.parts) : t.parts[i].k = b})

\* How many contributions of t were computed by rank r.
TimesFrom(t, r) == Cardinality({i \in 1..Len(t.parts) : t.parts[i].q = r})

EventsOf(r, op) == {i \in 1..Len(trace[r]) : trace[r][i].op = op}

StepsOf(r, op) == {trace[r][i].step : i \in EventsOf(r, op)}

VisibleSteps(r) == {s \in Active : CausallyVisible(r, s)}

MergesExactlyRequired(t, r) ==
    /\ \A b \in Ranks : TimesMerged(t, b) = IF b \in RequiredBlocks(r) THEN 1 ELSE 0
    /\ \A i \in 1..Len(t.parts) : t.parts[i].q = r /\ t.parts[i].v = t.parts[i].k

\* C1: when forward has returned on rank r, the output and the saved lse have
\* merged exactly one contribution of every required K/V block (blocks 0..r
\* when causal, all blocks otherwise), each of rank r's own Q against the K and
\* V of one block, and nothing else.
C1_ForwardMergesRequiredBlocks ==
    \A r \in Active :
        FwdReturned(r) =>
            /\ fwd_ret[r].kind = "O"
            /\ MergesExactlyRequired(fwd_ret[r], r)
            /\ MergesExactlyRequired(ctx[r].out, r)
            /\ MergesExactlyRequired(ctx[r].lse, r)

C1_Witness ==
    /\ world_size = 3 /\ is_causal
    /\ \A r \in Active : FwdReturned(r)
    /\ Len(fwd_ret[1].parts) = 2

GradOfOwnBlock(t, b) ==
    /\ \A i \in 1..Len(t.parts) : t.parts[i].k = b /\ t.parts[i].v = b
    /\ \A r \in Ranks : TimesFrom(t, r) = IF r \in Seers(b) THEN 1 ELSE 0

\* C2: the dK and dV backward returns on rank b hold only contributions
\* computed against block b, exactly one from each rank that sees block b
\* (ranks >= b when causal, every rank otherwise).
C2_BackwardReturnsOwnBlockGrads ==
    \A b \in Active :
        pc[b] = "b_done" =>
            /\ bwd_ret[b].dk.kind = "dK" /\ bwd_ret[b].dv.kind = "dV"
            /\ GradOfOwnBlock(bwd_ret[b].dk, b)
            /\ GradOfOwnBlock(bwd_ret[b].dv, b)

C2_Witness ==
    /\ world_size = 3 /\ is_causal
    /\ \A b \in Active : pc[b] = "b_done"
    /\ Len(bwd_ret[0].dk.parts) = 3
    /\ Len(bwd_ret[2].dk.parts) = 1

AllSent(r) ==
    {sent[c][r][n][i] : <<c, n, i>> \in
        {x \in ChanNames \X (1..MaxW) \X (1..2) :
            x[2] <= Len(sent[x[1]][r]) /\ x[3] <= Len(sent[x[1]][r][x[2]])}}

\* C3: dq of rank r holds only contributions computed by rank r, one for each
\* block gradient computation it has performed; those are performed at visible
\* steps only, once per visible step; no exchange on any channel ever carries
\* a dQ tensor.
C3_DqStaysLocal ==
    \A r \in Active :
        /\ pc[r] \in {"b_gradwait", "b_kvwait", "b_gradissue", "b_issue", "b_compute",
                      "b_finalwait", "b_return", "b_done"} =>
              /\ Len(dq[r].parts) = Cardinality(EventsOf(r, "grad"))
              /\ \A i \in 1..Len(dq[r].parts) : dq[r].parts[i].q = r
              /\ \A i \in EventsOf(r, "grad") : CausallyVisible(r, trace[r][i].step)
              /\ \A i, j \in EventsOf(r, "grad") :
                    trace[r][i].step = trace[r][j].step => i = j
        /\ pc[r] = "b_done" =>
              /\ StepsOf(r, "grad") = VisibleSteps(r)
              /\ bwd_ret[r].dq = dq[r]
        /\ \A t \in AllSent(r) : t.kind # "dQ" /\ t.kind \in {"K", "V", "dK", "dV"}

C3_Witness ==
    /\ world_size = 3 /\ is_causal
    /\ pc[1] = "b_done"
    /\ Len(dq[1].parts) = 2
    /\ Cardinality(EventsOf(1, "grad_skip")) = 1

\* C4: forward computes a block at (r, s) exactly when backward computes a
\* block gradient at (r, s), and both exactly at the causally visible steps.
C4_SameVisibilityFwdBwd ==
    \A r \in Active :
        /\ FwdReturned(r) =>
              /\ StepsOf(r, "attn") = VisibleSteps(r)
              /\ StepsOf(r, "attn_skip") = Active \ VisibleSteps(r)
        /\ pc[r] = "b_done" =>
              /\ StepsOf(r, "grad") = StepsOf(r, "attn")
              /\ StepsOf(r, "grad_skip") = StepsOf(r, "attn_skip")
              /\ StepsOf(r, "grad") = VisibleSteps(r)

C4_Witness ==
    /\ world_size = 3 /\ is_causal
    /\ pc[0] = "b_done"
    /\ StepsOf(0, "grad") = {0}
    /\ StepsOf(0, "attn_skip") = {1, 2}

RingSteps(r, ops) == Cardinality({i \in 1..Len(trace[r]) : trace[r][i].op \in ops})

AllDoneAfterWSteps ==
    \A r \in Active :
        /\ pc[r] = "b_done"
        /\ RingSteps(r, {"attn", "attn_skip"}) = world_size
        /\ RingSteps(r, {"grad", "grad_skip"}) = world_size
        /\ \A c \in ChanNames : ~active[c][r]

\* C8: when all W ranks run forward and then backward with the same world size
\* and causal flag, and every exchange whose neighbours issued the matching
\* exchange completes, every rank's forward and backward call returns, after
\* exactly W ring steps each: no rank stays blocked in wait().
C8_EveryRankTerminates == <>[]AllDoneAfterWSteps

C8_Witness ==
    /\ world_size = 3 /\ is_causal
    /\ AllDoneAfterWSteps
    /\ \A r \in Active : Len(sent["d_kv_comm"][r]) = 3 /\ Len(sent["comm"][r]) = 2

NowReading(r) ==
    IF pc[r] \in {"f_compute", "b_compute"} THEN {k[r], v[r]}
    ELSE IF pc[r] = "b_gradissue" THEN {dk[r], dv[r]}
    ELSE IF pc[r] = "b_return" THEN {dq[r], next_dk[r], next_dv[r]}
    ELSE IF pc[r] = "b_done" THEN {bwd_ret[r].dq, bwd_ret[r].dk, bwd_ret[r].dv}
    ELSE IF pc[r] = "f_finish" THEN {out[r], lse[r]}
    ELSE {}

\* C9: no rank has used a receive buffer before the wait() of the batch that
\* fills it (as input to a block computation, an accumulation, a further
\* exchange or a return value), nor written a tensor that is the source of an
\* exchange still in flight; what a rank is about to read is valid, and no
\* tensor that went on the wire was an unfilled buffer.
C9_NoUseBeforeWait ==
    \A r \in Active :
        /\ ~hazard[r]
        /\ \A t \in NowReading(r) : t.ready
        /\ \A t \in AllSent(r) : t.ready
        /\ pc[r] = "b_compute" /\ ~IsNone(dq[r]) => ~IsInFlightSource(r, dq[r])

C9_Witness ==
    /\ world_size = 3 /\ ~is_causal
    /\ pc[0] = "b_compute" /\ step[0] = 1
    /\ active["d_kv_comm"][0] /\ active["kv_comm"][0]
    /\ k[0].org = 2
    /\ Len(dk[0].parts) = 1 /\ Len(dq[0].parts) = 1

OneBlock(t, kind, mask) ==
    t = Derived(kind, <<Contribution(0, 0, 0, mask)>>, TRUE)

\* C10: with world size 1, forward issues no K/V exchange, computes exactly one
\* block (own Q against own K/V, masked exactly when causal) and returns that
\* block's output; backward issues no K/V exchange, computes exactly one block
\* gradient and returns that block's dQ, dK and dV.
C10_WorldSizeOne ==
    world_size = 1 =>
        /\ FwdReturned(0) =>
              /\ sent["comm"][0] = <<>>
              /\ EventsOf(0, "commit") \cap {i \in 1..Len(trace[0]) :
                                               trace[0][i].ch = "comm"} = {}
              /\ Cardinality(EventsOf(0, "attn")) = 1
              /\ \A i \in EventsOf(0, "attn") :
                    /\ trace[0][i].step = 0
                    /\ trace[0][i].blk = 0
                    /\ trace[0][i].mask = is_causal
              /\ OneBlock(fwd_ret[0], "O", is_causal)
              /\ OneBlock(ctx[0].lse, "LSE", is_causal)
        /\ pc[0] = "b_done" =>
              /\ sent["kv_comm"][0] = <<>>
              /\ Cardinality(EventsOf(0, "grad")) = 1
              /\ \A i \in EventsOf(0, "grad") :
                    /\ trace[0][i].step = 0
                    /\ trace[0][i].blk = 0
                    /\ trace[0][i].mask = is_causal
              /\ OneBlock(bwd_ret[0].dq, "dQ", is_causal)
              /\ OneBlock(bwd_ret[0].dk, "dK", is_causal)
              /\ OneBlock(bwd_ret[0].dv, "dV", is_causal)

C10_Witness ==
    /\ world_size = 1 /\ is_causal
    /\ pc[0] = "b_done"
    /\ OneBlock(bwd_ret[0].dk, "dK", TRUE)

\* C5: once a no_sync scope has been left, by the body ending or by the body
\* raising, and no scope has been entered since, require_backward_grad_sync is
\* True again.
C5_NoSyncReenablesSync ==
    \A r \in DPGroup :
        scope_last[r] \in {"exit", "raise"} => require_backward_grad_sync[r]

GroupSum == SumUpTo(pre_grad, dp_world_size - 1)

\* C6: a hook that ran with synchronization enabled returns the sum of all
\* ranks' gradients on entry divided by the group size; once it has run so on
\* every rank, all ranks hold that same value.
C6_SyncedHookAverages ==
    /\ \A r \in DPGroup :
          hook_pc[r] = "returned" /\ hook_sync[r] =>
              /\ grad[r] = Frac(GroupSum, dp_world_size)
              /\ collectives[r] = 1
              /\ \A o \in DPGroup : hook_pc[o] # "idle" /\ hook_sync[o]
    /\ (\A r \in DPGroup : hook_pc[r] = "returned" /\ hook_sync[r]) =>
          \A a, b \in DPGroup : grad[a] = grad[b]

C6_Witness ==
    /\ dp_world_size = 2
    /\ \A r \in DPGroup : hook_pc[r] = "returned" /\ hook_sync[r]
    /\ pre_grad[0] = 0 /\ pre_grad[1] = 1
    /\ grad[0] = Frac(1, 2) /\ grad[1] = Frac(1, 2)

\* C7: a hook called while a no_sync scope is open on its rank returns the
\* rank's own gradient unchanged and calls no collective.
C7_HookInScopeIsLocal ==
    \A r \in DPGroup :
        hook_pc[r] # "idle" /\ hook_in_scope[r] =>
            /\ hook_pc[r] = "returned"
            /\ grad[r] = Frac(pre_grad[r], 1)
            /\ collectives[r] = 0

\* ---------------------------------------------------------------- C11, C12
\* The state after merging blocks 1..n of a list in list order.
RECURSIVE FoldInOrder(_, _)
FoldInOrder(blocks, n) ==
    IF n = 0
    THEN <<NoneN, NoneN>>
    ELSE LET prev == FoldInOrder(blocks, n - 1)
             res == update_out_and_lse_num(prev[1], prev[2], blocks[n].out,
                                           blocks[n].lse, "None")
         IN  <<res.out, res.lse>>

\* Sum of exp(lse_i), and sum of exp(lse_i) * out_i, over blocks 1..n.
RECURSIVE SumExp(_, _)
SumExp(blocks, n) ==
    IF n = 0 THEN Rat(0, 1) ELSE RAdd(SumExp(blocks, n - 1), blocks[n].lse)

RECURSIVE SumWeighted(_, _)
SumWeighted(blocks, n) ==
    IF n = 0
    THEN Rat(0, 1)
    ELSE RAdd(SumWeighted(blocks, n - 1), RMul(blocks[n].lse, blocks[n].out))

AllMerged == m_pc = "run" /\ Len(m_order) = Len(m_blocks)

\* C11: merging a fixed list of block (out, lse) pairs into an absent running
\* state gives the same final (out, lse) whatever the order of the merges: the
\* result of merging in list order, which is the softmax-weighted mean of the
\* outs and the log of the sum of the exp(lse).  (Exact arithmetic.)
C11_MergeOrderInvariant ==
    AllMerged =>
        LET n == Len(m_blocks)
        IN  /\ <<m_out, m_lse>> = FoldInOrder(m_blocks, n)
            /\ m_lse = SumExp(m_blocks, n)
            /\ m_out = RDiv(SumWeighted(m_blocks, n), SumExp(m_blocks, n))

C11_Witness ==
    /\ AllMerged
    /\ m_order = <<3, 1, 2>>
    /\ m_blocks = << [out |-> Rat(0, 1), lse |-> Rat(1, 1)],
                     [out |-> Rat(1, 1), lse |-> Rat(2, 1)],
                     [out |-> Rat(1, 1), lse |-> Rat(1, 1)] >>
    /\ m_out = Rat(3, 4)
    /\ m_lse = Rat(4, 1)

\* C12: the first merge, into an absent running out and without a slice,
\* returns the block's own out and lse as the running state, unblended.
C12_FirstMergeReturnsBlock ==
    (m_pc = "run" /\ Len(m_order) = 1) =>
        /\ m_out = m_blocks[m_order[1]].out
        /\ m_lse = m_blocks[m_order[1]].lse

C12_Witness ==
    /\ m_pc = "run"
    /\ Len(m_blocks) = 2
    /\ m_order = <<2>>
    /\ m_blocks[2] = [out |-> Rat(1, 1), lse |-> Rat(2, 1)]
    /\ m_out = Rat(1, 1)
    /\ m_lse = Rat(2, 1)

\* ---------------------------------------------------------------- C13, C14
\* Every plain Attention of the model handed in is now a RingAttention with
\* the original's four weights and rotary object, and no plain Attention is
\* left anywhere in the tree.
AllReplaced ==
    \A p \in Paths :
        /\ cp_mods[p].type # "Attention"
        /\ cp_orig[p].type = "Attention" =>
               /\ cp_mods[p].type = "RingAttention"
               /\ cp_mods[p].q_proj = cp_orig[p].q_proj
               /\ cp_mods[p].k_proj = cp_orig[p].k_proj
               /\ cp_mods[p].v_proj = cp_orig[p].v_proj
               /\ cp_mods[p].o_proj = cp_orig[p].o_proj
               /\ cp_mods[p].rotary = cp_orig[p].rotary

\* C13: once the call ContextParallel(model, config) is over, every plain
\* Attention sub-module, at any depth, has been replaced in its parent by a
\* RingAttention carrying the original's weights and rotary object.
C13_AllAttentionReplaced ==
    cp_pc \in {"done", "raised"} => AllReplaced

\* C14: a read of an attribute the wrapper does not define, and the wrapped
\* model does, ends with the wrapped model's value of that attribute.
C14_GetAttrForwards ==
    (ga_name \in ModelAttrs /\ ga_stack = <<>>) =>
        ga_result = [kind |-> "model_value", attr |-> ga_name]

\* ---------------------------------------------------------------- C15..C20
\* The block the ring has brought to rank r by step s.
BlockAt(r, s) == (r - s) % world_size

ComputeOps == {"attn", "attn_skip", "grad", "grad_skip"}

\* C15: whenever rank r is at the block computation of ring step s, forward or
\* backward, performed or skipped, its K and V are the K and V blocks that
\* originated at rank (r - s) mod W.
C15_BlockProvenance ==
    \A r \in Active :
        /\ pc[r] \in {"f_compute", "b_compute"} =>
               /\ k[r].kind = "K" /\ k[r].org = BlockAt(r, step[r])
               /\ v[r].kind = "V" /\ v[r].org = BlockAt(r, step[r])
        /\ \A i \in 1..Len(trace[r]) :
               trace[r][i].op \in ComputeOps =>
                   trace[r][i].blk = BlockAt(r, trace[r][i].step)

C15_Witness ==
    /\ world_size = 3
    /\ is_causal
    /\ pc[0] = "b_compute"
    /\ step[0] = 2
    /\ k[0].org = 1
    /\ v[0].org = 1
    /\ \E i \in 1..Len(trace[0]) :
           trace[0][i].op = "attn_skip" /\ trace[0][i].step = 1 /\ trace[0][i].blk = 2

\* Every contribution summed into t was computed against K and V block b.
AlignedTo(t, b) ==
    /\ Len(t.parts) >= 1
    /\ \A i \in 1..Len(t.parts) : t.parts[i].k = b /\ t.parts[i].v = b

\* C16: the dK, dV rank r puts on the gradient channel at the end of step s
\* are sums of gradients of block (r - s) mod W only; a rank adds to what it
\* received only its own block gradient against that same block; and what a
\* rank holds after the wait that follows the loop is the gradient of its own
\* block.
C16_GradientFollowsBlock ==
    \A r \in Active :
        /\ \A n \in 1..Len(sent["d_kv_comm"][r]) :
               /\ AlignedTo(sent["d_kv_comm"][r][n][1], BlockAt(r, n - 1))
               /\ AlignedTo(sent["d_kv_comm"][r][n][2], BlockAt(r, n - 1))
        /\ (pc[r] = "b_gradwait" /\ BwdVisible(step[r], r, is_causal)) =>
               /\ block_dk_buffer[r].parts =
                      <<Contribution(r, BlockAt(r, step[r]), BlockAt(r, step[r]),
                                     is_causal /\ step[r] = 0)>>
               /\ block_dv_buffer[r].parts = block_dk_buffer[r].parts
               /\ ~WaitBlocks("d_kv_comm", r) =>
                      AlignedTo(Received("d_kv_comm", r, 1, next_dk[r]),
                                BlockAt(r, step[r]))
        /\ pc[r] \in {"b_kvwait", "b_gradissue"} =>
               /\ AlignedTo(dk[r], BlockAt(r, step[r]))
               /\ AlignedTo(dv[r], BlockAt(r, step[r]))
        /\ pc[r] \in {"b_return", "b_done"} =>
               /\ AlignedTo(next_dk[r], r)
               /\ AlignedTo(next_dv[r], r)

C16_Witness ==
    /\ world_size = 3
    /\ is_causal
    /\ pc[0] = "b_gradissue"
    /\ step[0] = 1
    /\ dk[0].parts = <<Contribution(2, 2, 2, TRUE)>>
    /\ pc[2] = "b_gradissue"
    /\ step[2] = 1
    /\ Len(dk[2].parts) = 2
    /\ AlignedTo(dk[2], 1)

IsGradChannelEvent(e) == e.ch = "d_kv_comm"

\* What rank r did on the gradient channel, in order.
GradChannelHistory(r) == SelectSeq(trace[r], IsGradChannelEvent)

\* C17: on the gradient channel of every rank, commit and wait alternate,
\* commit first: the exchange committed at the end of step s is waited for
\* once, at step s + 1 (after the loop for the last one), with its two buffers
\* pending; so never two batches are in flight, no wait finds nothing pending,
\* and a rank that returned has waited for each of its W commits.
C17_GradCommitWaitAlternate ==
    \A r \in Active :
        LET h == GradChannelHistory(r)
        IN  /\ \A i \in 1..Len(h) :
                   IF i % 2 = 1
                   THEN /\ h[i].op = "commit"
                        /\ h[i].step = (i - 1) \div 2
                   ELSE /\ h[i].op = "wait"
                        /\ h[i].n = 2
                        /\ h[i].step = i \div 2
            /\ active["d_kv_comm"][r] <=> Len(h) % 2 = 1
            /\ Len(pending["d_kv_comm"][r]) = IF active["d_kv_comm"][r] THEN 2 ELSE 0
            /\ pc[r] \in {"b_return", "b_done"} => Len(h) = 2 * world_size

C17_Witness ==
    /\ world_size = 3
    /\ is_causal
    /\ pc[0] = "b_done"
    /\ Len(GradChannelHistory(0)) = 6
    /\ pc[1] = "b_finalwait"
    /\ Len(GradChannelHistory(1)) = 5

EventAt(r, i, ops, s) == trace[r][i].op \in ops /\ trace[r][i].step = s

\* C18: a block computation applies the intra-block causal mask exactly when
\* the call is causal and the ring step is 0, in forward and in backward; so
\* a visible step s >= 1 is unmasked and forward and backward of one rank use
\* the same mask flag at the same step.
C18_MaskOnlyAtStepZero ==
    \A r \in Active :
        /\ \A i \in 1..Len(trace[r]) :
               trace[r][i].op \in {"attn", "grad"} =>
                   (trace[r][i].mask <=> (is_causal /\ trace[r][i].step = 0))
        /\ \A i, j \in 1..Len(trace[r]) :
               (/\ trace[r][i].op = "attn"
                /\ trace[r][j].op = "grad"
                /\ trace[r][i].step = trace[r][j].step) =>
                   trace[r][i].mask = trace[r][j].mask
        /\ \A t \in {out[r], dq[r], dk[r], next_dk[r]} :
               \A i \in 1..Len(t.parts) :
                   t.parts[i].mask <=> (is_causal /\ t.parts[i].k = t.parts[i].q)

C18_Witness ==
    /\ world_size = 3
    /\ is_causal
    /\ pc[2] = "b_done"
    /\ \E i, j, m \in 1..Len(trace[2]) :
           /\ EventAt(2, i, {"attn"}, 0) /\ trace[2][i].mask
           /\ EventAt(2, j, {"grad"}, 0) /\ trace[2][j].mask
           /\ EventAt(2, m, {"grad"}, 2) /\ ~trace[2][m].mask

\* C19: every rank issues W - 1 K/V batches in forward, W - 1 K/V batches and
\* W gradient batches in backward, never more, each of two buffers, whatever
\* its rank and the causal flag, invisible steps included.
C19_ExchangeCounts ==
    \A r \in Active :
        /\ \A c \in ChanNames : \A n \in 1..Len(sent[c][r]) : Len(sent[c][r][n]) = 2
        /\ Len(sent["comm"][r]) <= world_size - 1
        /\ Len(sent["kv_comm"][r]) <= world_size - 1
        /\ Len(sent["d_kv_comm"][r]) <= world_size
        /\ FwdReturned(r) => Len(sent["comm"][r]) = world_size - 1
        /\ pc[r] = "b_done" =>
               /\ Len(sent["kv_comm"][r]) = world_size - 1
               /\ Len(sent["d_kv_comm"][r]) = world_size
        /\ \A i \in 1..Len(trace[r]) : trace[r][i].op = "commit" => trace[r][i].n = 2

C19_Witness ==
    /\ world_size = 3
    /\ is_causal
    /\ pc[0] = "b_done"
    /\ Len(sent["comm"][0]) = 2
    /\ Len(sent["kv_comm"][0]) = 2
    /\ Len(sent["d_kv_comm"][0]) = 3
    /\ \E i \in 1..Len(trace[0]) : EventAt(0, i, {"grad_skip"}, 2)

\* In rank r's history, event i is preceded by an event of ops at step s.
Before(r, i, ops, s) == \E j \in 1..(i - 1) : EventAt(r, j, ops, s)

IsOn(e, op, c) == e.op = op /\ e.ch = c

\* C20: in every ring step that has a K/V exchange, forward and backward, the
\* exchange is committed before the block computation (or its skip) of that
\* step and waited for only after it, so the transfer is in flight during the
\* computation; and a gradient exchange is waited for, at the following step,
\* only after that step's block gradient computation (or its skip).
C20_ExchangeOverlapsCompute ==
    \A r \in Active :
        /\ \A i \in 1..Len(trace[r]) :
               LET e == trace[r][i]
               IN  /\ (e.op \in {"attn", "attn_skip"} /\ e.step + 1 # world_size) =>
                          /\ \E j \in 1..(i - 1) :
                                 IsOn(trace[r][j], "commit", "comm")
                                 /\ trace[r][j].step = e.step
                          /\ ~\E j \in 1..(i - 1) :
                                 IsOn(trace[r][j], "wait", "comm")
                                 /\ trace[r][j].step = e.step
                   /\ (e.op \in {"grad", "grad_skip"} /\ e.step + 1 # world_size) =>
                          /\ \E j \in 1..(i - 1) :
                                 IsOn(trace[r][j], "commit", "kv_comm")
                                 /\ trace[r][j].step = e.step
                          /\ ~\E j \in 1..(i - 1) :
                                 IsOn(trace[r][j], "wait", "kv_comm")
                                 /\ trace[r][j].step = e.step
                   /\ IsOn(e, "wait", "comm") =>
                          Before(r, i, {"attn", "attn_skip"}, e.step)
                   /\ IsOn(e, "wait", "kv_comm") =>
                          Before(r, i, {"grad", "grad_skip"}, e.step)
                   /\ (IsOn(e, "wait", "d_kv_comm") /\ e.step < world_size) =>
                          Before(r, i, {"grad", "grad_skip"}, e.step)
        /\ (pc[r] = "f_compute" /\ step[r] + 1 # world_size) => active["comm"][r]
        /\ (pc[r] = "b_compute" /\ step[r] + 1 # world_size) => active["kv_comm"][r]
        /\ (pc[r] = "b_compute" /\ step[r] # 0) => active["d_kv_comm"][r]

C20_Witness ==
    /\ world_size = 3
    /\ ~is_causal
    /\ pc[1] = "b_compute"
    /\ step[1] = 1
    /\ active["kv_comm"][1]
    /\ active["d_kv_comm"][1]
    /\ \E i \in 1..Len(trace[1]) :
           IsOn(trace[1][i], "wait", "comm") /\ trace[1][i].step = 1

\* ---------------------------------------------------------------- C21..C25
\* Rank r has nothing committed and not waited for on channel c.
Drained(c, r) ==
    /\ ~active[c][r]
    /\ pending[c][r] = <<>>
    /\ Cardinality({i \in 1..Len(trace[r]) : IsOn(trace[r][i], "commit", c)})
           = Cardinality({i \in 1..Len(trace[r]) : IsOn(trace[r][i], "wait", c)})

\* C21: when forward has returned on a rank its K/V channel has no exchange
\* committed and not waited for, and when backward has returned none of the
\* three channels has one: the gradient exchange of the last step was waited
\* for before dK, dV were returned.
C21_NothingInFlightAtReturn ==
    \A r \in Active :
        /\ FwdReturned(r) => Drained("comm", r)
        /\ pc[r] = "b_done" => \A c \in ChanNames : Drained(c, r)
        /\ pc[r] = "b_done" => bwd_ret[r].dk.ready /\ bwd_ret[r].dv.ready

C21_Witness ==
    /\ world_size = 3
    /\ ~is_causal
    /\ \A r \in Active : pc[r] = "b_done"
    /\ \A r \in Active : Len(sent["d_kv_comm"][r]) = 3 /\ Len(sent["kv_comm"][r]) = 2
    /\ \A r \in Active : \A c \in ChanNames : ~active[c][r]

Kinds(batch) == [i \in 1..Len(batch) |-> batch[i].kind]

\* What rank r holds of channel c: its in-flight flag and queued sources.
ChannelState(c, r) == <<active[c][r], pending[c][r]>>

\* A step of rank r that completes a wait on channel c leaves the rank's
\* other channels as they were, and fills only the receive buffers of c.
WaitTouchesOnly(c, r) ==
    (active[c][r] /\ ~active'[c][r]) =>
        /\ \A d \in ChanNames \ {c} : ChannelState(d, r)' = ChannelState(d, r)
        /\ c = "kv_comm" =>
               /\ next_dk'[r] = next_dk[r] /\ next_dv'[r] = next_dv[r]
               /\ next_k'[r].kind = "K" /\ next_v'[r].kind = "V"
        /\ c = "d_kv_comm" =>
               /\ next_k'[r] = next_k[r] /\ next_v'[r] = next_v[r]
               /\ next_dk'[r].kind = "dK" /\ next_dv'[r].kind = "dV"

ChannelsKeptApart ==
    /\ Cardinality({FwdChannel, KVChannel, GradChannel}) = 3
    /\ {FwdChannel, KVChannel, GradChannel} = ChanNames
    /\ \A r \in Active :
           /\ \A n \in 1..Len(sent["comm"][r]) :
                  Kinds(sent["comm"][r][n]) = <<"K", "V">>
           /\ \A n \in 1..Len(sent["kv_comm"][r]) :
                  Kinds(sent["kv_comm"][r][n]) = <<"K", "V">>
           /\ \A n \in 1..Len(sent["d_kv_comm"][r]) :
                  Kinds(sent["d_kv_comm"][r][n]) = <<"dK", "dV">>
           /\ (active["kv_comm"][r] /\ active["d_kv_comm"][r]) =>
                  /\ Kinds(pending["kv_comm"][r]) = <<"K", "V">>
                  /\ Kinds(pending["d_kv_comm"][r]) = <<"dK", "dV">>

\* C22: forward K/V, backward K/V and gradient exchange run on three
\* channels of different names; a backward K/V exchange and a gradient
\* exchange in flight together on a rank are on different channels, each with
\* its own two buffers; and a wait on one channel neither completes the other
\* channel's exchange nor fills or consumes its buffers.
C22_ChannelsDoNotAlias ==
    /\ []ChannelsKeptApart
    /\ [][\A r \in Active : \A c \in ChanNames : WaitTouchesOnly(c, r)]_vars

C22_Witness ==
    /\ world_size = 3
    /\ is_causal
    /\ pc[0] = "b_gradwait"
    /\ step[0] = 1
    /\ active["kv_comm"][0]
    /\ active["d_kv_comm"][0]
    /\ ~WaitBlocks("d_kv_comm", 0)
    /\ ~next_k[0].ready

\* C23: the K and V forward saves for backward on rank r, and backward uses
\* at its step 0, are the blocks that originated at rank r, for every W; they
\* are not the blocks the forward loop ended with, which originated at rank
\* (r + 1) mod W.
C23_SavedKVAreOriginal ==
    \A r \in Active :
        /\ FwdReturned(r) =>
               /\ ctx[r].k.kind = "K" /\ ctx[r].k.org = r
               /\ ctx[r].v.kind = "V" /\ ctx[r].v.org = r
        /\ pc[r] = "f_done" =>
               /\ k[r].org = (r + 1) % world_size
               /\ v[r].org = (r + 1) % world_size
        /\ (pc[r] \in {"b_issue", "b_compute"} /\ step[r] = 0) =>
               /\ k[r] = ctx[r].k /\ k[r].org = r
               /\ v[r] = ctx[r].v /\ v[r].org = r
        /\ \A i \in 1..Len(trace[r]) :
               (trace[r][i].op \in {"grad", "grad_skip"} /\ trace[r][i].step = 0) =>
                   trace[r][i].blk = r

C23_Witness ==
    /\ world_size = 3
    /\ pc[1] = "f_done"
    /\ k[1].org = 2
    /\ ctx[1].k.org = 1
    /\ pc[2] = "b_compute"
    /\ step[2] = 0
    /\ k[2].org = 2
    /\ ctx[2].v.org = 2

Present(t) == ~IsNone(t)

\* C24: on every rank, for every W and causal flag, step 0 is visible; so
\* forward's running out and lse exist from the computation of step 0 on and
\* at the final cast, backward's dq, dk, dv exist from the computation of
\* step 0 on and when a gradient exchange is issued, and no cast or exchange
\* is ever handed an absent value.
C24_StepZeroCreatesAccumulators ==
    \A r \in Active :
        /\ FwdVisible(0, r, is_causal)
        /\ BwdVisible(0, r, is_causal)
        /\ pc[r] \notin {"f_error", "b_error"}
        /\ \A i \in 1..Len(trace[r]) :
               trace[r][i].step = 0 => trace[r][i].op \notin {"attn_skip", "grad_skip"}
        /\ (pc[r] \in {"f_wait", "f_finish"}
                \/ (pc[r] \in {"f_issue", "f_compute"} /\ step[r] >= 1)) =>
               Present(out[r]) /\ Present(lse[r])
        /\ (pc[r] \in {"b_kvwait", "b_gradissue", "b_gradwait", "b_finalwait"}
                \/ (pc[r] \in {"b_issue", "b_compute"} /\ step[r] >= 1)) =>
               Present(dq[r]) /\ Present(dk[r]) /\ Present(dv[r])
        /\ \A c \in ChanNames : \A n \in 1..Len(sent[c][r]) :
               \A i \in 1..Len(sent[c][r][n]) : Present(sent[c][r][n][i])
        /\ FwdReturned(r) => Present(fwd_ret[r]) /\ Present(ctx[r].out)

C24_Witness ==
    /\ world_size = 3
    /\ is_causal
    /\ pc[0] = "b_kvwait"
    /\ step[0] = 0
    /\ Len(dq[0].parts) = 1
    /\ Len(dk[0].parts) = 1
    /\ pc[2] = "f_finish"
    /\ Len(out[2].parts) = 3

\* C25: at every point at which at least one no_sync scope of a rank's
\* DataParallel instance is still open, nested scopes included,
\* require_backward_grad_sync is False on that rank.
C25_SuspendedWhileAnyScopeOpen ==
    \A r \in DPGroup : scopes[r] > 0 => ~require_backward_grad_sync[r]

\* -------------------------------------------------------------------- C26
\* Some rank raised before its barrier number b.
RaisedBefore(b) ==
    \E x \in CkGroup : ck_pc[x] = "raised" /\ ck_arrived[x] = b - 1

BarrierNumbers == 1..NumBarriers

\* If a rank raised before a barrier, no rank has returned a model or got
\* past that barrier, and a rank waiting in it cannot leave it.
RaiseBlocksTheRest ==
    \A b \in BarrierNumbers :
        RaisedBefore(b) =>
            \A q \in CkGroup :
                /\ ck_pc[q] # "returned"
                /\ ck_passed[q] < b
                /\ (ck_pc[q] = "in_barrier" /\ ck_arrived[q] = b) => ~BarrierOpen(q)

\* C26 as stated: a rank returns the model only after every rank has passed
\* (left) all four barriers; and a rank that raised before a barrier keeps
\* every rank from returning and from passing that barrier.
C26_ReturnsAfterAllPassed ==
    /\ \A r \in CkGroup :
           ck_pc[r] = "returned" => \A q \in CkGroup : ck_passed[q] = NumBarriers
    /\ RaiseBlocksTheRest

\* C26, amended: a rank returns the model only after every rank has entered
\* all four barriers, having left the first three, and no rank has raised;
\* every rank goes through the barriers in the same order, leaving the n-th
\* only once all ranks have entered their n-th; and a rank that raised before
\* a barrier keeps every rank from returning and from passing that barrier.
C26_ReturnsAfterAllArrived ==
    /\ \A r \in CkGroup :
           /\ ck_pc[r] = "returned" =>
                  /\ ck_passed[r] = NumBarriers
                  /\ \A q \in CkGroup :
                         /\ ck_arrived[q] = NumBarriers
                         /\ ck_passed[q] >= NumBarriers - 1
                         /\ ck_pc[q] # "raised"
           /\ ck_arrived[r] - ck_passed[r] = IF ck_pc[r] = "in_barrier" THEN 1 ELSE 0
           /\ ck_arrived[r] <= NumBarriers
           /\ \A q \in CkGroup : ck_passed[r] <= ck_arrived[q]
    /\ RaiseBlocksTheRest

C26_Witness ==
    /\ ck_world = 3
    /\ ck_pc[0] = "returned"
    /\ ck_pc[1] = "in_barrier"
    /\ ck_arrived[1] = 4
    /\ ck_passed[1] = 3
    /\ ck_pc[2] = "return"

====
